---- MODULE Spec2Model ----
(***************************************************************************)
(* The notebook notebooks/01_tabular_data_exploration.ipynb as a state     *)
(* machine: one action per code cell, run top-down until the exploration   *)
(* cells, which may then be run in any order and any number of times.  An  *)
(* exception raised by a cell ends the run.                                *)
(*                                                                         *)
(* The CSV source is an input: a header line and data lines, each a        *)
(* sequence of text fields.  The real file has 15 columns; the model keeps *)
(* the columns the cells name (education, education-num, sex, class) and   *)
(* the one the projection drops (fnlwgt).                                  *)
(***************************************************************************)
EXTENDS Integers, Sequences, FiniteSets, TLC

VARIABLES source, frames, adult_census, pc, error, out

vars == <<source, frames, adult_census, pc, error, out>>

\* ------------------------------------------------------------- bounds
MaxRows == 3        \* data lines of the CSV source

\* ------------------------------------------------------------ helpers
Range(s) == {s[i] : i \in 1..Len(s)}

Max(a, b) == IF a >= b THEN a ELSE b

SeqsUpTo(S, n) == UNION {[1..k -> S] : k \in 0..n}

Positions(s, x) == {i \in 1..Len(s) : s[i] = x}

RECURSIVE SumSeq(_)
SumSeq(s) == IF s = <<>> THEN 0 ELSE Head(s) + SumSeq(Tail(s))

\* All orderings of the finite set S, as sequences without repetition.
Orderings(S) ==
    {s \in [1..Cardinality(S) -> S] : \A i, j \in DOMAIN s : i # j => s[i] # s[j]}

\* ------------------------------------------------------- names (cell 8, 11)
target_column == "class"

numerical_columns == <<"education-num">>

categorical_columns == <<"education", "sex">>

all_columns == numerical_columns \o categorical_columns \o <<target_column>>

\* ------------------------------------------------------- the CSV source
CsvHeader == <<"fnlwgt", "education", "education-num", "sex", "class">>

\* A line of the file without the field of one column.
WithoutColumn(line, name) ==
    LET k == CHOOSE c \in Positions(CsvHeader, name) : TRUE
    IN SubSeq(line, 1, k - 1) \o SubSeq(line, k + 1, Len(line))

\* Headers tried: the file's, and the file's with one column missing.
Dropped == {"class", "education"}

\* Data lines tried, in the header's order.  Among them: two lines that differ
\* in the class alone, an education missing, and education / education-num
\* pairs that are not one to one.
DataLines ==
    { <<"77516", "1st-4th",   "2",  "Male", "<=50K">>,
      <<"77516", "1st-4th",   "2",  "Male", ">50K">>,
      <<"77516", "Bachelors", "13", "Male", "<=50K">>,
      <<"77516", "Bachelors", "2",  "Male", ">50K">>,
      <<"77516", "1st-4th",   "13", "Male", "<=50K">>,
      <<"77516", "",          "13", "Male", ">50K">> }

\* A data line with one field too few or one too many.
Short(line) == SubSeq(line, 1, Len(line) - 1)

Long(line) == Append(line, "0")

\* The lines as they are, or with the first or the last one ragged.
Ragged(rows) ==
    {rows}
    \cup {[rows EXCEPT ![i] = Short(rows[i])] : i \in DOMAIN rows \cap {1, Len(rows)}}
    \cup {[rows EXCEPT ![i] = Long(rows[i])] : i \in DOMAIN rows \cap {1, Len(rows)}}

Unavailable == [available |-> FALSE, header |-> <<>>, rows |-> <<>>]

Sources ==
    {Unavailable}
    \cup { [available |-> TRUE,
            header |-> WithoutColumn(CsvHeader, d),
            rows |-> [i \in DOMAIN rows |-> WithoutColumn(rows[i], d)]] :
            d \in Dropped, rows \in SeqsUpTo(DataLines, MaxRows) }
    \cup UNION { { [available |-> TRUE, header |-> CsvHeader, rows |-> rr] :
                     rr \in Ragged(rows) } :
                 rows \in SeqsUpTo(DataLines, MaxRows) }

\* ------------------------------------------------ pd.read_csv (cell 3)
NoError == "none"

\* The float NaN that read_csv stores for a missing value.
NaN == "NaN"

\* The texts read_csv reads as a missing value (its default na_values).
NaValues == {"", "#N/A", "NA", "N/A", "NULL", "NaN", "nan", "null", "n/a", "<NA>"}

ParseField(f) == IF f \in NaValues THEN NaN ELSE f

\* The number of fields read_csv expects on a data line: the header's, or the
\* first data line's when that one is longer (its leading fields are then the
\* index).
ExpectedFields(header, rows) ==
    IF rows = <<>> THEN Len(header) ELSE Max(Len(header), Len(rows[1]))

LeadingCols(header, rows) == ExpectedFields(header, rows) - Len(header)

\* A short line is filled with missing values up to the expected width.
PadLine(line, width) ==
    [k \in 1..width |-> IF k <= Len(line) THEN ParseField(line[k]) ELSE NaN]

\* A reader that refuses every line whose width is not the expected one.
ReadCsvErrorStrict(src) ==
    IF ~src.available THEN "URLError"
    ELSE IF \E i \in DOMAIN src.rows :
               Len(src.rows[i]) # ExpectedFields(src.header, src.rows)
         THEN "ParserError"
         ELSE NoError

ReadCsvError(src) ==
    IF ~src.available THEN "URLError"
    ELSE IF \E i \in DOMAIN src.rows :
               Len(src.rows[i]) > ExpectedFields(src.header, src.rows)
         THEN "ParserError"
         ELSE NoError

ReadCsvFrame(src) ==
    LET width == ExpectedFields(src.header, src.rows)
        lead  == LeadingCols(src.header, src.rows)
        cells == [i \in DOMAIN src.rows |-> PadLine(src.rows[i], width)]
    IN [ columns |-> src.header,
         index   |-> [i \in DOMAIN src.rows |->
                        IF lead = 0 THEN <<i - 1>> ELSE SubSeq(cells[i], 1, lead)],
         rows    |-> [i \in DOMAIN src.rows |-> SubSeq(cells[i], lead + 1, width)] ]

\* ------------------------------------------------ DataFrame operations
Shape(df) == <<Len(df.rows), Len(df.columns)>>

\* df[name]: the values of the column, in row order.
Column(df, name) ==
    LET k == CHOOSE c \in Positions(df.columns, name) : TRUE
    IN [i \in DOMAIN df.rows |-> df.rows[i][k]]

RECURSIVE Indexer(_, _)
\* The positions a list of labels selects: for each label in turn, every
\* column that carries it.
Indexer(columns, names) ==
    IF names = <<>> THEN <<>>
    ELSE LET here == Positions(columns, Head(names))
             inOrder == [k \in 1..Cardinality(here) |->
                           CHOOSE p \in here :
                               Cardinality({q \in here : q < p}) = k - 1]
         IN inOrder \o Indexer(columns, Tail(names))

MissingLabels(df, names) == {n \in Range(names) : Positions(df.columns, n) = {}}

\* A selection that keeps the frame's column order instead of the list's.
GetColumnsFrameOrder(df, names) ==
    LET ix == SelectSeq([k \in DOMAIN df.columns |-> k],
                        LAMBDA k : df.columns[k] \in Range(names))
    IN [ columns |-> [k \in DOMAIN ix |-> df.columns[ix[k]]],
         index   |-> df.index,
         rows    |-> [i \in DOMAIN df.rows |->
                        [k \in DOMAIN ix |-> df.rows[i][ix[k]]]] ]

\* df[names]: a new frame of the selected columns, same index, same row order.
GetColumns(df, names) ==
    LET ix == Indexer(df.columns, names)
    IN [ columns |-> [k \in DOMAIN ix |-> df.columns[ix[k]]],
         index   |-> df.index,
         rows    |-> [i \in DOMAIN df.rows |->
                        [k \in DOMAIN ix |-> df.rows[i][ix[k]]]] ]

\* --------------------------------------- Series.value_counts (cells 8, 20, 21)
NotNa(series) == {i \in DOMAIN series : series[i] # NaN}

\* Counting with dropna=False: the missing value is counted like any other.
CountValuesWithNa(series) ==
    [v \in {series[i] : i \in DOMAIN series} |->
        Cardinality({i \in DOMAIN series : series[i] = v})]

\* The occurrences of each distinct value; missing values are dropped.
CountValues(series) ==
    [v \in {series[i] : i \in NotNa(series)} |->
        Cardinality({i \in DOMAIN series : series[i] = v})]

\* Sorting with ascending=True.
SortValuesAscending(counts) ==
    {s \in Orderings(DOMAIN counts) :
        \A i, j \in DOMAIN s : i < j => counts[s[i]] <= counts[s[j]]}

\* sort_values(ascending=False) with the default sort kind, which is not a
\* stable sort: every ordering with the counts descending is a possible result.
SortValues(counts) ==
    {s \in Orderings(DOMAIN counts) :
        \A i, j \in DOMAIN s : i < j => counts[s[i]] >= counts[s[j]]}

\* The possible results, each a sequence of (value, count) from the top.
ValueCounts(series) ==
    LET counts == CountValues(series)
    IN {[k \in DOMAIN s |-> [value |-> s[k], count |-> counts[s[k]]]] :
          s \in SortValues(counts)}

\* ------------------------------------- DataFrame.duplicated (Exercise2)
\* duplicated(keep=False): every row that has a twin is marked.
DuplicatedKeepFalse(df) ==
    [i \in DOMAIN df.rows |->
        \E j \in DOMAIN df.rows : j # i /\ df.rows[j] = df.rows[i]]

\* duplicated(): a row is marked when an earlier row has the same value in
\* every column.
Duplicated(df) ==
    [i \in DOMAIN df.rows |-> \E j \in 1..(i - 1) : df.rows[j] = df.rows[i]]

DuplicateRowCount(df) ==
    LET mask == Duplicated(df) IN Cardinality({i \in DOMAIN mask : mask[i]})

\* ------------------------------------------------- pd.crosstab (cell 27)
\* Counting the rows whose first value is missing too.
CrossTabRowsKeepNa(a, b) == NotNa(b)

\* The rows crosstab counts: those with a value in both series.
CrossTabRows(a, b) == NotNa(a) \cap NotNa(b)

\* The table of joint counts, one row per value of a, one column per value of b.
CrossTab(a, b) ==
    LET kept == CrossTabRows(a, b)
        rowKeys == {a[i] : i \in kept}
        colKeys == {b[i] : i \in kept}
    IN [ rowKeys |-> rowKeys,
         colKeys |-> colKeys,
         cell    |-> [p \in rowKeys \X colKeys |->
                        Cardinality({i \in kept : a[i] = p[1] /\ b[i] = p[2]})] ]

\* What the table is read for: the two columns "give the same information"
\* when each row of the table has one non-zero cell and each column one.
Redundant(table) ==
    /\ \A r \in table.rowKeys :
          Cardinality({c \in table.colKeys : table.cell[<<r, c>>] > 0}) = 1
    /\ \A c \in table.colKeys :
          Cardinality({r \in table.rowKeys : table.cell[<<r, c>>] > 0}) = 1

\* ------------------------------------------- the shape message (cell 14)
Lit(text) == [interpolated |-> FALSE, text |-> text, number |-> 0]

Num(n) == [interpolated |-> TRUE, text |-> "", number |-> n]

\* print(f"... {shape[0]} samples and " "{adult_census.shape[1]} features"):
\* the second literal carries no f prefix, so its braces are printed as text.
ShapeMessage(df) ==
    << Lit("The dataset contains "),
       Num(Shape(df)[1]),
       Lit(" samples and "),
       Lit("{adult_census.shape[1]} features") >>

\* --------------------------------------------- profile_report (cell 23)
\* The overview of the report: variables, observations, missing cells,
\* duplicate rows, and the distinct values of each variable with their counts.
ProfileReport(df) ==
    [ n_var        |-> Shape(df)[2],
      n            |-> Shape(df)[1],
      n_missing    |-> Cardinality({p \in (DOMAIN df.rows) \X (DOMAIN df.columns) :
                                      df.rows[p[1]][p[2]] = NaN}),
      n_duplicates |-> DuplicateRowCount(df),
      counts       |-> [k \in DOMAIN df.columns |->
                          CountValues([i \in DOMAIN df.rows |-> df.rows[i][k]])] ]

\* ------------------------------------------------------ running cells
\* out is what the cell run last displays; a cell that is an assignment
\* displays nothing.
NoOutput == [kind |-> "none"]

\* Running on after a cell has raised.
NextCellAllowErrors(after, exc) == after

\* The cell run next: an exception raised by a cell ends the run.
NextCell(after, exc) == IF exc = NoError THEN after ELSE "failed"

\* What a cell that reads the listed columns of adult_census raises.
CellError(names) ==
    IF adult_census = 0 THEN "NameError"
    ELSE IF MissingLabels(frames[adult_census], names) # {} THEN "KeyError"
    ELSE NoError

\* Storing the new frame over the object the name was bound to.
StoreFrameInPlace(heap, ref, df) ==
    IF ref = 0 THEN Append(heap, df) ELSE Append([heap EXCEPT ![ref] = df], df)

\* adult_census = adult_census[...]: the name is bound to the new object; the
\* object it was bound to is left as it is.
StoreFrame(heap, ref, df) == Append(heap, df)

Init ==
    /\ source \in Sources
    /\ frames = <<>>
    /\ adult_census = 0
    /\ pc = "load"
    /\ error = NoError
    /\ out = NoOutput

\* cell 3: adult_census = pd.read_csv(...)
Load ==
    /\ pc = "load"
    /\ LET exc == ReadCsvError(source)
       IN /\ pc' = NextCell("target", exc)
          /\ error' = exc
          /\ IF exc = NoError
             THEN /\ frames' = StoreFrame(frames, adult_census, ReadCsvFrame(source))
                  /\ adult_census' = Len(frames')
             ELSE UNCHANGED <<frames, adult_census>>
    /\ out' = NoOutput
    /\ UNCHANGED source

\* A cell that shows adult_census[name].value_counts().
ValueCountsCell(name, after) ==
    LET exc == CellError(<<name>>)
    IN /\ pc' = NextCell(after, exc)
       /\ error' = IF exc = NoError THEN error ELSE exc
       /\ IF exc = NoError
          THEN \E r \in ValueCounts(Column(frames[adult_census], name)) :
                  out' = [kind |-> "value_counts", on |-> adult_census,
                          column |-> name, result |-> r]
          ELSE out' = out
       /\ UNCHANGED <<source, frames, adult_census>>

\* cell 8: adult_census[target_column].value_counts()
ClassBalance ==
    /\ pc = "target"
    /\ ValueCountsCell(target_column, "project")

\* cell 11: adult_census = adult_census[all_columns]
Project ==
    /\ pc = "project"
    /\ LET exc == CellError(all_columns)
       IN /\ pc' = NextCell("explore", exc)
          /\ error' = IF exc = NoError THEN error ELSE exc
          /\ IF exc = NoError
             THEN /\ frames' = StoreFrame(frames, adult_census,
                                  GetColumns(frames[adult_census], all_columns))
                  /\ adult_census' = Len(frames')
             ELSE UNCHANGED <<frames, adult_census>>
    /\ out' = NoOutput
    /\ UNCHANGED source

\* cell 14: print(f"The dataset contains ... features")
ShapeReport ==
    /\ pc = "explore"
    /\ LET exc == CellError(<<>>)
       IN /\ pc' = NextCell(pc, exc)
          /\ error' = IF exc = NoError THEN error ELSE exc
          /\ out' = IF exc = NoError
                    THEN [kind |-> "print", on |-> adult_census,
                          message |-> ShapeMessage(frames[adult_census])]
                    ELSE out
    /\ UNCHANGED <<source, frames, adult_census>>

\* cell 20: adult_census['sex'].value_counts()
ValueCountsSex ==
    /\ pc = "explore"
    /\ ValueCountsCell("sex", pc)

\* cell 21: adult_census['education'].value_counts()
ValueCountsEducation ==
    /\ pc = "explore"
    /\ ValueCountsCell("education", pc)

\* cell 23: adult_census.profile_report()
Profile ==
    /\ pc = "explore"
    /\ LET exc == CellError(<<>>)
       IN /\ pc' = NextCell(pc, exc)
          /\ error' = IF exc = NoError THEN error ELSE exc
          /\ out' = IF exc = NoError
                    THEN [kind |-> "report", on |-> adult_census,
                          report |-> ProfileReport(frames[adult_census])]
                    ELSE out
    /\ UNCHANGED <<source, frames, adult_census>>

\* Exercise2: the number of rows adult_census.duplicated() marks
Exercise2 ==
    /\ pc = "explore"
    /\ LET exc == CellError(<<>>)
       IN /\ pc' = NextCell(pc, exc)
          /\ error' = IF exc = NoError THEN error ELSE exc
          /\ out' = IF exc = NoError
                    THEN [kind |-> "duplicated", on |-> adult_census,
                          count |-> DuplicateRowCount(frames[adult_census])]
                    ELSE out
    /\ UNCHANGED <<source, frames, adult_census>>

\* cell 27: pd.crosstab(index=adult_census['education'],
\*                      columns=adult_census['education-num'])
CrossTabCell ==
    /\ pc = "explore"
    /\ LET exc == CellError(<<"education", "education-num">>)
       IN /\ pc' = NextCell(pc, exc)
          /\ error' = IF exc = NoError THEN error ELSE exc
          /\ out' = IF exc = NoError
                    THEN [kind |-> "crosstab", on |-> adult_census,
                          table |-> CrossTab(
                              Column(frames[adult_census], "education"),
                              Column(frames[adult_census], "education-num"))]
                    ELSE out
    /\ UNCHANGED <<source, frames, adult_census>>

Next ==
    \/ Load
    \/ ClassBalance
    \/ Project
    \/ ShapeReport
    \/ ValueCountsSex
    \/ ValueCountsEducation
    \/ Profile
    \/ Exercise2
    \/ CrossTabCell

Spec == Init /\ [][Next]_vars

\* ====================================================== the claims
\* The series a value_counts output was computed from.
OutSeries == Column(frames[out.on], out.column)

Loaded == source.available /\ pc # "load"

\* ---------------------------------------------------------------- C1
\* C1 as stated: whenever a data line of the source has a number of fields
\* different from the header's, load fails with MalformedInput (pandas'
\* ParserError) and no Dataset is produced.
C1_RaggedRejected ==
    (Loaded /\ \E i \in DOMAIN source.rows : Len(source.rows[i]) # Len(source.header))
        => (error = "ParserError" /\ frames = <<>> /\ adult_census = 0)

\* C1 amended: load fails with MalformedInput and produces no Dataset when a
\* data line has more fields than both the header and the first data line, and
\* only then.  Otherwise it succeeds with one row per data line, each as wide as
\* the header: a line with fewer fields keeps its fields and is filled with
\* missing values at the end, and when the first data line is longer than the
\* header its leading fields become the row labels.
C1_LoadRagged ==
    Loaded =>
        LET header == source.header
            lines  == source.rows
            over   == {i \in DOMAIN lines :
                        Len(lines[i]) > Len(header) /\ Len(lines[i]) > Len(lines[1])}
        IN IF over # {}
           THEN error = "ParserError" /\ frames = <<>> /\ adult_census = 0
           ELSE /\ error # "ParserError"
                /\ frames # <<>>
                /\ Len(frames[1].rows) = Len(lines)
                /\ \A i \in DOMAIN lines :
                     LET lead  == IF Len(lines[1]) > Len(header)
                                  THEN Len(lines[1]) - Len(header) ELSE 0
                         given == Len(lines[i]) - lead
                     IN /\ Len(frames[1].rows[i]) = Len(header)
                        /\ lead > 0 =>
                             frames[1].index[i] =
                                [k \in 1..lead |-> ParseField(lines[i][k])]
                        /\ \A k \in 1..Len(header) :
                             frames[1].rows[i][k] =
                                IF k <= given THEN ParseField(lines[i][lead + k]) ELSE NaN

\* C1 witness: a source with a line shorter than the header has been loaded
\* without an error.
C1_Witness ==
    /\ Loaded
    /\ error = NoError
    /\ frames # <<>>
    /\ \E i \in DOMAIN source.rows : Len(source.rows[i]) < Len(source.header)

\* ---------------------------------------------------------------- C2
\* C2: the duplicate count is the number of rows minus the number of distinct
\* rows, rows being equal only when they agree on every column, the target
\* included; the dataset keeps all its rows.
C2_DuplicateCount ==
    out.kind = "duplicated" =>
        LET rows == frames[out.on].rows
        IN /\ out.count = Len(rows) - Cardinality(Range(rows))
           /\ Len(rows) = Len(source.rows)
           /\ frames[adult_census].rows = rows

\* C2 witness: a duplicate was counted in a dataset that also holds two rows
\* differing in the target alone.
C2_Witness ==
    /\ out.kind = "duplicated"
    /\ out.count >= 1
    /\ LET df == frames[out.on]
           t  == CHOOSE c \in Positions(df.columns, target_column) : TRUE
       IN \E i, j \in DOMAIN df.rows :
             /\ df.rows[i] # df.rows[j]
             /\ \A k \in DOMAIN df.columns : k # t => df.rows[i][k] = df.rows[j][k]

\* ---------------------------------------------------------------- C3
\* C3: the counts of value_counts partition the column: every observed value
\* is a key exactly once and the counts add up to the number of rows whose
\* value is not missing.
C3_Partition ==
    out.kind = "value_counts" =>
        LET series == OutSeries
            r == out.result
        IN /\ \A k, l \in DOMAIN r : k # l => r[k].value # r[l].value
           /\ {r[k].value : k \in DOMAIN r} = {series[i] : i \in DOMAIN series} \ {NaN}
           /\ SumSeq([k \in DOMAIN r |-> r[k].count]) = Cardinality(NotNa(series))

\* C3 witness: value_counts ran on a column with a missing value and two
\* distinct values.
C3_Witness ==
    /\ out.kind = "value_counts"
    /\ Len(out.result) >= 2
    /\ \E i \in DOMAIN OutSeries : OutSeries[i] = NaN

\* ---------------------------------------------------------------- C4
FirstSeen(series, v) == CHOOSE i \in Positions(series, v) :
                            \A j \in Positions(series, v) : i <= j

\* C4 as stated: the result is in descending order of count and values with
\* equal counts are in the order they were first seen in the column.
C4_StableOrder ==
    out.kind = "value_counts" =>
        \A k, l \in DOMAIN out.result :
            k < l => \/ out.result[k].count > out.result[l].count
                     \/ /\ out.result[k].count = out.result[l].count
                        /\ FirstSeen(OutSeries, out.result[k].value)
                             < FirstSeen(OutSeries, out.result[l].value)

\* C4 amended: the result of value_counts, and so of the class balance, is in
\* descending order of count; the order of values with equal counts is not
\* fixed.  Target values <=50K, <=50K, <=50K, >50K give <=50K: 3 then >50K: 1.
C4_Descending ==
    out.kind = "value_counts" =>
        /\ \A k, l \in DOMAIN out.result :
              k < l => out.result[k].count >= out.result[l].count
        /\ OutSeries = <<"<=50K", "<=50K", "<=50K", ">50K">> =>
              out.result = << [value |-> "<=50K", count |-> 3],
                              [value |-> ">50K", count |-> 1] >>

\* C4 witness: the class balance was shown for a target with one class more
\* frequent than the other.
C4_Witness ==
    /\ out.kind = "value_counts"
    /\ out.column = target_column
    /\ Len(out.result) = 2
    /\ out.result[1].count > out.result[2].count

\* ---------------------------------------------------------------- C5
\* The (a, b) pairs of the rows that have a value in both columns.
ObservedPairs(a, b) == {<<a[i], b[i]>> : i \in NotNa(a) \cap NotNa(b)}

Bijection(pairs) ==
    \A p, q \in pairs : (p[1] = q[1]) <=> (p[2] = q[2])

NoRepeats(names) == \A i, j \in DOMAIN names : i # j => names[i] # names[j]

\* The column lists tried: the notebook's, and every list of one or two names.
ColumnLists ==
    {all_columns}
    \cup {<<n>> : n \in Range(CsvHeader)}
    \cup {<<n, m>> : n, m \in Range(CsvHeader)}

Present(df, names) == MissingLabels(df, names) = {}

\* A cell has just bound adult_census (the load, the projection): every
\* dataset of a run is in a state like this.
Bound == adult_census # 0 /\ out = NoOutput

\* C6 as stated: for every list of column names present in the dataset,
\* projecting twice gives the same dataset as projecting once.
C6_IdempotentAnyList ==
    Bound => \A f \in DOMAIN frames : \A names \in ColumnLists :
        Present(frames[f], names) =>
            LET p == GetColumns(frames[f], names)
            IN GetColumns(p, names) = p

\* C6 amended: for every list of distinct column names present in the dataset,
\* projecting twice gives the same dataset as projecting once; the result has
\* exactly the listed columns, in the list's order, and the rows of the input
\* in their order.
C6_IdempotentDistinct ==
    Bound => \A f \in DOMAIN frames : \A names \in ColumnLists :
        (NoRepeats(names) /\ Present(frames[f], names)) =>
            LET df == frames[f]
                p  == GetColumns(df, names)
                at == [k \in DOMAIN names |->
                         CHOOSE c \in Positions(df.columns, names[k]) : TRUE]
            IN /\ GetColumns(p, names) = p
               /\ p.columns = names
               /\ p.index = df.index
               /\ Len(p.rows) = Len(df.rows)
               /\ \A i \in DOMAIN df.rows : \A k \in DOMAIN names :
                     p.rows[i][k] = df.rows[i][at[k]]

\* C6 witness: the notebook's projection has run on a loaded dataset with rows
\* and dropped the fnlwgt column.
C6_Witness ==
    /\ Bound
    /\ pc = "explore"
    /\ Len(frames) = 2
    /\ frames[2] = GetColumns(frames[1], all_columns)
    /\ frames[2].columns # frames[1].columns
    /\ Len(frames[2].rows) >= 2

\* ---------------------------------------------------------------- C8
\* The failure the specification names for an exception.
ErrorKind(exc) ==
    CASE exc = "URLError"    -> "SourceUnavailable"
      [] exc = "ParserError" -> "MalformedInput"
      [] exc = "KeyError"    -> "UnknownColumn"
      [] OTHER               -> "Other"

Failures == {"SourceUnavailable", "MalformedInput", "UnknownColumn", "NonNumericColumn"}

C9_Immutable ==
    [][ /\ source' = source
        /\ \A f \in DOMAIN frames : f \in DOMAIN frames' /\ frames'[f] = frames[f]
        /\ pc = "explore" => (frames' = frames /\ adult_census' = adult_census) ]_vars

\* C9 witness: a query has run on the projected dataset while the loaded one
\* is still what it was.
C9_Witness ==
    /\ out.kind = "crosstab"
    /\ Len(frames) = 2
    /\ frames[1] = ReadCsvFrame(source)
    /\ frames[1] # frames[2]
    /\ Len(frames[1].rows) >= 1

\* --------------------------------------------------------------- C10
InterpolatedNumbers(message) ==
    LET picked == SelectSeq(message, LAMBDA part : part.interpolated)
    IN [k \in DOMAIN picked |-> picked[k].number]

\* C10: the printed message carries the number of rows as the sample count
\* and the number of columns as the feature count.
C10_BothDimensions ==
    out.kind = "print" =>
        InterpolatedNumbers(out.message) =
            <<Len(frames[out.on].rows), Len(frames[out.on].columns)>>

====
